---- MODULE Spec2Model ----
(***************************************************************************)
(* Random COF name generation and the build-and-retry drivers of           *)
(* random_cof_generator.py ("v1"), random_cof_generator_v2.py ("v2") and   *)
(* work.py ("work").  Strings are sequences of one-character strings, so   *)
(* that formatting (f-strings), str.split and substring search are         *)
(* computed and not assumed.                                               *)
(***************************************************************************)
EXTENDS Integers, Sequences, FiniteSets, TLC

(***************************************************************************)
(* Whitelists, copied from the sources.                                    *)
(***************************************************************************)
\* random_cof_generator.py: l2_list
l2_list ==
    <<
    <<"B","E","N","Z">>, <<"D","B","A","1">>, <<"T","P","T","A">>, <<"T","R","Z","N">>,
    <<"D","I","C","Z">>, <<"T","P","A","M">>, <<"T","P","O","B">>, <<"T","B","B","Z">>,
    <<"D","B","A","2">>, <<"T","P","N","Y">>, <<"B","R","Z","N">>, <<"T","P","T","Z">>,
    <<"B","T","T","P">>, <<"T","P","B","Z">>, <<"S","T","A","R">>, <<"S","T","A","R","1">> >>

\* random_cof_generator.py: t3_list
t3_list ==
    <<
    <<"P","H","E","N">>, <<"B","E","N","Z">>, <<"H","D","Z","N">>, <<"P","Y","E","N">>,
    <<"I","N","F","L">>, <<"N","A","P","T">>, <<"P","T","C","D">>, <<"4","I","D","T">>,
    <<"B","B","T","Z">>, <<"D","P","E","L">>, <<"T","I","D","A">>, <<"D","H","P","I">>,
    <<"D","P","B","Y">>, <<"P","Y","T","O">>, <<"T","I","E","N">>, <<"D","F","F","E">>,
    <<"A","N","T","R">>, <<"2","B","P","D">>, <<"D","H","S","I">>, <<"3","B","P","D">>,
    <<"I","N","T","O">>, <<"T","P","N","Y">>, <<"B","D","T","P">>, <<"P","Y","R","N">>,
    <<"B","P","Y","B">>, <<"N","D","T","P">>, <<"I","N","D","E">>, <<"D","P","D","A">>,
    <<"B","D","F","N">>, <<"I","I","T","T">>, <<"B","T","P","H">>, <<"D","P","E","Y">>,
    <<"3","I","D","T">>, <<"B","P","N","Y">>, <<"T","P","D","I">>, <<"T","T","P","H">> >>

\* random_cof_generator.py: s4_list
s4_list ==
    <<
    <<"P","T","C","A">>, <<"P","H","P","R">>, <<"P","O","R","P">> >>

\* random_cof_generator.py: r_list (the func_groups of the generator)
r_list ==
    <<
    <<"C","O","O","H">>, <<"F">>, <<"C","l">>, <<"O","C","O","C","H","3">>, <<"P","h">>,
    <<"B","r">>, <<"N","O">>, <<"S","H">>, <<"C","H","3">>, <<"O","E","t">>,
    <<"E","E","P","O">>, <<"C","N">>, <<"t","B","u">>, <<"S","O","3","H">>, <<"C","H","S">>,
    <<"I">>, <<"N","O","2">>, <<"C","H","O">>, <<"H">>, <<"E","M","E","P","O">>,
    <<"D","M","P","E">>, <<"M","E","P","O">>, <<"O","P","r","o","p">>, <<"O","E","E","P","O">>,
    <<"E","P","O">>, <<"N","H","2">>, <<"S","O","2","H">>, <<"O">>, <<"O","M","e">>, <<"O","H">> >>

\* random_cof_generator.py: FALLBACK_STRINGS
FALLBACK_STRINGS ==
    <<

    <<"S","4","_","P","O","R","P","_","C","H","O","_","I","_","H","-","L","2","_","B","D","T","P","_","N","H","2","_","C","N","_","H","_","H","_","H","_","H","-","S","Q","L","_","A","-","A","A">>,
    <<"S","4","_","P","H","P","R","_","C","H","O","_","S","O","2","H","_","H","_","H","_","H","_","H","_","H","-","L","2","_","B","P","Y","B","_","N","H","2","_","N","H","2","_","H","_","H","_","H","_","H","_","H","-","S","Q","L","_","A","-","A","A">>,
    <<"T","3","_","B","R","Z","N","_","C","H","O","_","O","H","-","L","2","_","D","P","D","A","_","N","H","2","_","I","_","H","_","H","_","H","-","H","C","B","_","A","-","A","A">> >>

\* random_cof_generator_v2.py: L2_CORES
V2_L2_CORES ==
    <<
    <<"B","E","N","Z">>, <<"T","P","T","A">>, <<"T","R","Z","N">>, <<"D","I","C","Z">>,
    <<"T","P","A","M">>, <<"T","P","O","B">>, <<"D","B","A","1">>, <<"T","P","N","Y">>,
    <<"B","R","Z","N">>, <<"T","P","T","Z">>, <<"B","T","T","P">>, <<"T","P","B","Z">> >>

\* random_cof_generator_v2.py: T3_CORES
V2_T3_CORES ==
    <<
    <<"B","E","N","Z">>, <<"T","P","B">>, <<"T","R","Z","N">>, <<"H","B","C">>,
    <<"P","Y","R","E">>, <<"T","R","U","X">>, <<"T","P","A">>, <<"B","T","P">>, <<"D","T","P">>,
    <<"H","A","T">> >>

\* random_cof_generator_v2.py: S4_CORES
V2_S4_CORES ==
    <<
    <<"P","O","R","P">>, <<"P","Y","R","E">>, <<"P","H","P","R">> >>

\* random_cof_generator_v2.py: H6_CORES
V2_H6_CORES ==
    <<
    <<"H","P","C","O">>, <<"H","E","C","O">> >>

\* random_cof_generator_v2.py: FUNC_GROUPS
FUNC_GROUPS ==
    <<
    <<"H">>, <<"O","H">>, <<"O","M","e">>, <<"F">>, <<"C","l">>, <<"B","r">>, <<"C","H","3">>,
    <<"C","N">>, <<"C","O","O","H">>, <<"N","O","2">>, <<"t","B","u">>, <<"P","h">> >>

\* work.py: L2_CORES
L2_CORES ==
    <<
    <<"P","H","E","N">>, <<"B","E","N","Z">>, <<"H","D","Z","N">>, <<"P","Y","E","N">>,
    <<"I","N","F","L">>, <<"N","A","P","T">>, <<"P","T","C","D">>, <<"4","I","D","T">>,
    <<"B","B","T","Z">>, <<"D","P","E","L">>, <<"T","I","D","A">>, <<"D","H","P","I">>,
    <<"D","P","B","Y">>, <<"P","Y","T","O">>, <<"T","I","E","N">>, <<"D","F","F","E">>,
    <<"A","N","T","R">>, <<"2","B","P","D">>, <<"D","H","S","I">>, <<"3","B","P","D">>,
    <<"I","N","T","O">>, <<"T","P","N","Y">>, <<"B","D","T","P">>, <<"P","Y","R","N">>,
    <<"B","P","Y","B">>, <<"N","D","T","P">>, <<"I","N","D","E">>, <<"D","P","D","A">>,
    <<"B","D","F","N">>, <<"I","I","T","T">>, <<"B","T","P","H">>, <<"D","P","E","Y">>,
    <<"3","I","D","T">>, <<"B","P","N","Y">>, <<"T","P","D","I">>, <<"T","T","P","H">> >>

\* work.py: T3_CORES
T3_CORES ==
    <<
    <<"B","E","N","Z">>, <<"D","B","A","1">>, <<"T","P","T","A">>, <<"T","R","Z","N">>,
    <<"D","I","C","Z">>, <<"T","P","A","M">>, <<"T","P","O","B">>, <<"T","B","B","Z">>,
    <<"D","B","A","2">>, <<"T","P","N","Y">>, <<"B","R","Z","N">>, <<"T","P","T","Z">>,
    <<"B","T","T","P">>, <<"T","P","B","Z">>, <<"S","T","A","R">>, <<"S","T","A","R","1">> >>

\* work.py: S4_CORES
S4_CORES ==
    <<
    <<"P","T","C","A">>, <<"P","H","P","R">>, <<"P","O","R","P">> >>

\* work.py: H6_CORES
H6_CORES ==
    <<
    <<"H","P","C","O">>, <<"H","E","C","O">> >>

\* work.py: Q_CONNECTORS
Q_CONNECTORS ==
    <<
    <<"C","O","O","H">>, <<"N","H","O","H">>, <<"N","H","N","H","2">>, <<"C","l">>,
    <<"C","O","N","H","N","H","2">>, <<"B","r">>, <<"C","H","O">>, <<"B","O","H","2">>,
    <<"C","O","C","H","C","H","O","H">>, <<"N","H","2">>, <<"O">>, <<"C","H","C","N">> >>

\* work.py: R_GROUPS
R_GROUPS ==
    <<
    <<"C","O","O","H">>, <<"F">>, <<"C","l">>, <<"O","C","O","C","H","3">>, <<"P","h">>,
    <<"B","r">>, <<"N","O">>, <<"S","H">>, <<"C","H","3">>, <<"O","E","t">>,
    <<"E","E","P","O">>, <<"C","N">>, <<"t","B","u">>, <<"S","O","3","H">>, <<"C","H","S">>,
    <<"I">>, <<"N","O","2">>, <<"C","H","O">>, <<"H">>, <<"E","M","E","P","O">>,
    <<"D","M","P","E">>, <<"M","E","P","O">>, <<"O","P","r","o","p">>, <<"O","E","E","P","O">>,
    <<"E","P","O">>, <<"N","H","2">>, <<"S","O","2","H">>, <<"O">>, <<"O","M","e">>, <<"O","H">> >>

(***************************************************************************)
(* Bounds of the model.                                                    *)
(***************************************************************************)
\* Generator specification: every random index is at most MaxIdx, except
\* one field per draw, which ranges over its whole list.
MaxIdx == 2
\* Driver specification: every random index other than the topology's is 1,
\* except one field per draw, which is at most DrvMaxIdx.
DrvMaxIdx == 2
\* Largest max_attempts argument.
MaxAttempts == 2
\* Largest n_structures argument of batch_generate.
MaxStructures == 2
\* Longest prefix of a batch_generate run that is explored.
MaxBatchSteps == 2
\* Largest number of redraws of the duplicate-avoiding loop of random_cof_name.
MaxRedraws == 2

(***************************************************************************)
(* Python strings, lists and dicts.                                        *)
(***************************************************************************)
\* Python's None, as a topology argument: no string equals it.
None == <<"None">>

\* bool(x) of an optional string: None and "" are falsy.
Truthy(x) == x # None /\ x # <<>>

Min(a, b) == IF a < b THEN a ELSE b

\* sep.join(parts)
RECURSIVE Join(_, _)
Join(parts, sep) ==
    IF Len(parts) = 0 THEN <<>>
    ELSE IF Len(parts) = 1 THEN parts[1]
    ELSE parts[1] \o <<sep>> \o Join(Tail(parts), sep)

\* s.split(sep), sep one character
RECURSIVE Split(_, _)
Split(s, sep) ==
    IF \E i \in 1..Len(s) : s[i] = sep
    THEN LET i == CHOOSE j \in 1..Len(s) :
                      s[j] = sep /\ \A k \in 1..(j - 1) : s[k] # sep
         IN  <<SubSeq(s, 1, i - 1)>> \o Split(SubSeq(s, i + 1, Len(s)), sep)
    ELSE <<s>>

\* The number of positions of s at which sub occurs.
Occurrences(sub, s) ==
    Cardinality({i \in 1..(Len(s) - Len(sub) + 1) :
                     SubSeq(s, i, i + Len(sub) - 1) = sub})

\* x in list
In(x, list) == \E i \in 1..Len(list) : list[i] = x

\* A dict is the sequence of its <<key, value>> items, in insertion order.
Keys(d) == [i \in 1..Len(d) |-> d[i][1]]
Has(d, k) == \E i \in 1..Len(d) : d[i][1] = k
Get(d, k) == d[CHOOSE i \in 1..Len(d) : d[i][1] = k][2]

\* The index range of one random.choice over a list of n entries: the first
\* `wide` entries for the free field of a draw, the first `bound` entries
\* otherwise.
Rng(n, bound, wide, isFree) == 1..Min(n, IF isFree THEN wide ELSE bound)

\* The same for a pick of _pick_func_group, whose outcome 0 is the biased
\* branch and i >= 1 the i-th entry of the list.
Rng0(n, bound, wide, isFree) == 0..Min(n, IF isFree THEN wide ELSE bound - 1)

(***************************************************************************)
(* Identifiers used by the rule tables.                                    *)
(***************************************************************************)
L2 == <<"L","2">>
T3 == <<"T","3">>
S4 == <<"S","4">>
H6 == <<"H","6">>
HCB == <<"H","C","B">>
SQL == <<"S","Q","L">>
KGD == <<"K","G","D">>
HXL == <<"H","X","L">>
NH2 == <<"N","H","2">>
CHO == <<"C","H","O">>
BOH2 == <<"B","O","H","2">>
NHNH2 == <<"N","H","N","H","2">>
CHCN == <<"C","H","C","N">>
H == <<"H">>

\* The generator's result: the returned name, or the exception raised, and
\* the number of calls made to the random module.
Returned(name, n) == [raised |-> "none", name |-> name, draws |-> n]
Raised(exc, n) == [raised |-> exc, name |-> <<>>, draws |-> n]

(***************************************************************************)
(* random_cof_generator.py: COFGenerator                                   *)
(***************************************************************************)
v1_cores == << <<L2, l2_list>>, <<T3, t3_list>>, <<S4, s4_list>> >>

v1_func_groups == r_list

v1_valid_linkages == << <<NH2, CHO>>, <<CHO, NH2>>, <<BOH2, BOH2>> >>

v1_topo_rules == << <<HCB, <<T3, L2>>>>, <<SQL, <<S4, L2>>>> >>

\* A variant of block_str that writes the core before the symmetry tag.
block_str_core_first(sym, core, conn, func) == Join(<<core, sym, conn, func>>, "_")

\* f"{sym}_{core}_{conn}_{func}"
block_str(sym, core, conn, func) == Join(<<sym, core, conn, func>>, "_")

\* A variant of cof_string_of that writes the topology in the net field too.
cof_string_topo_twice(block_A_str, block_B_str, selected_topo, net, stacking) ==
    Join(<<block_A_str, block_B_str, Join(<<selected_topo, selected_topo>>, "_"),
           stacking>>, "-")

\* f"{block_A_str}-{block_B_str}-{selected_topo}_{net}-{stacking}"
cof_string_of(block_A_str, block_B_str, selected_topo, net, stacking) ==
    Join(<<block_A_str, block_B_str, Join(<<selected_topo, net>>, "_"), stacking>>, "-")

\* "if topology and topology in topo_rules"
v1_forced(topology) == Truthy(topology) /\ Has(v1_topo_rules, topology)

v1_selected_topo(topology, t) ==
    IF v1_forced(topology) THEN topology ELSE Keys(v1_topo_rules)[t]

\* generate_candidate; d holds the outcomes of the random.choice calls.
v1_generate_candidate(topology, d) ==
    LET selected_topo == v1_selected_topo(topology, d.topo)
        sym_a == Get(v1_topo_rules, selected_topo)[1]
        sym_b == Get(v1_topo_rules, selected_topo)[2]
        core_a == Get(v1_cores, sym_a)[d.core_a]
        core_b == Get(v1_cores, sym_b)[d.core_b]
        conn_a == v1_valid_linkages[d.link][1]
        conn_b == v1_valid_linkages[d.link][2]
        func_a == v1_func_groups[d.func_a]
        func_b == v1_func_groups[d.func_b]
        net == <<"A">>
        stacking == <<"A","A">>
        block_A_str == block_str(sym_a, core_a, conn_a, func_a)
        block_B_str == block_str(sym_b, core_b, conn_b, func_b)
        cof_string == cof_string_of(block_A_str, block_B_str, selected_topo, net, stacking)
    IN  Returned(cof_string, (IF v1_forced(topology) THEN 0 ELSE 1) + 5)

\* The outcomes of the random calls of one generate_candidate call.
v1_Draws(topology, bound, wide, free) ==
    UNION { UNION {
        LET syms == Get(v1_topo_rules, v1_selected_topo(topology, t))
        IN  [topo : {t},
             core_a : Rng(Len(Get(v1_cores, syms[1])), bound, wide, f = "core_a"),
             core_b : Rng(Len(Get(v1_cores, syms[2])), bound, wide, f = "core_b"),
             link : Rng(Len(v1_valid_linkages), bound, wide, f = "link"),
             func_a : Rng(Len(v1_func_groups), bound, wide, f = "func_a"),
             func_b : Rng(Len(v1_func_groups), bound, wide, f = "func_b")]
        : f \in free \cup {"none"} }
      : t \in IF v1_forced(topology) THEN {1} ELSE 1..Len(v1_topo_rules) }

(***************************************************************************)
(* random_cof_generator_v2.py: COFGenerator                                *)
(***************************************************************************)
v2_cores ==
    << <<L2, V2_L2_CORES>>, <<T3, V2_T3_CORES>>, <<S4, V2_S4_CORES>>, <<H6, V2_H6_CORES>> >>

v2_func_groups == FUNC_GROUPS

v2_valid_linkages ==
    << <<NH2, CHO>>, <<CHO, NH2>>, <<BOH2, BOH2>>, <<NHNH2, CHO>>, <<CHO, NHNH2>>,
       <<CHCN, CHO>>, <<CHO, CHCN>> >>

v2_topo_rules ==
    << <<HCB, <<T3, L2>>>>, <<SQL, <<S4, L2>>>>, <<KGD, <<T3, L2>>>>, <<HXL, <<H6, L2>>>> >>

\* _pick_func_group: pick 0 is "random.random() < 0.3", pick i >= 1 is
\* random.choice returning func_groups[i].
v2_pick_func_group(pick) == IF pick = 0 THEN H ELSE v2_func_groups[pick]

\* The calls to the random module one _pick_func_group makes.
v2_pick_draws(pick) == IF pick = 0 THEN 1 ELSE 2

v2_selected_topo(topology, t) ==
    IF Truthy(topology) THEN topology ELSE Keys(v2_topo_rules)[t]

\* generate_candidate
v2_generate_candidate(topology, d) ==
    IF Truthy(topology) /\ ~Has(v2_topo_rules, topology)
    THEN Raised("ValueError", 0)
    ELSE
    LET selected_topo == v2_selected_topo(topology, d.topo)
        sym_a == Get(v2_topo_rules, selected_topo)[1]
        sym_b == Get(v2_topo_rules, selected_topo)[2]
        core_a == Get(v2_cores, sym_a)[d.core_a]
        core_b == Get(v2_cores, sym_b)[d.core_b]
        conn_a == v2_valid_linkages[d.link][1]
        conn_b == v2_valid_linkages[d.link][2]
        func_a == v2_pick_func_group(d.func_a)
        func_b == v2_pick_func_group(d.func_b)
        net == <<"A">>
        stacking == <<"A","A">>
        block_A_str == block_str(sym_a, core_a, conn_a, func_a)
        block_B_str == block_str(sym_b, core_b, conn_b, func_b)
        cof_string == cof_string_of(block_A_str, block_B_str, selected_topo, net, stacking)
    IN  Returned(cof_string,
                 (IF Truthy(topology) THEN 0 ELSE 1) + 3
                     + v2_pick_draws(d.func_a) + v2_pick_draws(d.func_b))

\* The outcomes of the random calls of one generate_candidate call; a call
\* that raises draws nothing.
v2_Draws(topology, bound, wide, free) ==
    IF Truthy(topology) /\ ~Has(v2_topo_rules, topology)
    THEN {[topo |-> 1, core_a |-> 1, core_b |-> 1, link |-> 1, func_a |-> 0, func_b |-> 0]}
    ELSE
    UNION { UNION {
        LET syms == Get(v2_topo_rules, v2_selected_topo(topology, t))
        IN  [topo : {t},
             core_a : Rng(Len(Get(v2_cores, syms[1])), bound, wide, f = "core_a"),
             core_b : Rng(Len(Get(v2_cores, syms[2])), bound, wide, f = "core_b"),
             link : Rng(Len(v2_valid_linkages), bound, wide, f = "link"),
             func_a : Rng0(Len(v2_func_groups), bound, wide, f = "func_a"),
             func_b : Rng0(Len(v2_func_groups), bound, wide, f = "func_b")]
        : f \in free \cup {"none"} }
      : t \in IF Truthy(topology) THEN {1} ELSE 1..Len(v2_topo_rules) }

(***************************************************************************)
(* work.py: COFGenerator.  pyCOFBuilder is an external library; its        *)
(* catalog of building blocks is an input, a sequence of block names       *)
(* SYM_CORE_Q_R..., and the connectivity it reports for a block is the     *)
(* digit of the block's symmetry tag.                                      *)
(***************************************************************************)
core_whitelist ==
    << <<L2, L2_CORES>>, <<T3, T3_CORES>>, <<S4, S4_CORES>>, <<H6, H6_CORES>> >>

q_whitelist == Q_CONNECTORS

\* list(set(r_groups)) + ["H"]
r_whitelist == R_GROUPS \o <<H>>

topology_rules == << <<HCB, <<3, 3>>>>, <<SQL, <<4, 4>>>> >>

\* pcb.Framework().available_stacking, for the topologies of topology_rules
available_stacking ==
    LET opts == << <<"A">>, <<"A","A">>, <<"A","B","1">>, <<"A","B","2">>,
                   <<"A","A","l">>, <<"A","A","t">>, <<"A","B","C","1">>,
                   <<"A","B","C","2">> >>
    IN  << <<HCB, opts>>, <<SQL, opts>> >>

stacking_by_topology ==
    [i \in 1..Len(topology_rules) |->
        <<topology_rules[i][1], Get(available_stacking, topology_rules[i][1])>>]

\* BuildingBlock(name).connectivity
Connectivity(name) ==
    CASE name[2] = "2" -> 2
      [] name[2] = "3" -> 3
      [] name[2] = "4" -> 4
      [] name[2] = "6" -> 6
      [] OTHER -> 0

\* bb_helper.get_available_conector() and get_available_R()
available_q(catalog) == {Split(catalog[i], "_")[3] : i \in 1..Len(catalog)}
available_r(catalog) ==
    UNION {{Split(catalog[i], "_")[j] : j \in 4..Len(Split(catalog[i], "_"))}
               : i \in 1..Len(catalog)}

allowed_q(catalog) == {q \in available_q(catalog) : In(q, q_whitelist)}
allowed_r(catalog) == {r \in available_r(catalog) : In(r, r_whitelist)}

\* The names of one symmetry that _build_block_library keeps: those that
\* get_buildingblock_list(sym, q) returns for an allowed q and that pass the
\* core and R-group filters.  (The code visits q in sorted order; the order
\* of a list only decides which index random.choice draws.)
kept_blocks(catalog, sym) ==
    LET core_list == Get(core_whitelist, sym)
        keep(name) ==
            LET parts == Split(name, "_")
            IN  /\ Len(parts) >= 3
                /\ parts[1] = sym
                /\ parts[3] \in allowed_q(catalog)
                /\ In(parts[2], core_list)
                /\ \A j \in 4..Len(parts) :
                       parts[j] \in allowed_r(catalog) \/ parts[j] = H
    IN  IF Len(core_list) = 0 THEN <<>> ELSE SelectSeq(catalog, keep)

\* self.blocks, as the list of its names
blocks(catalog) ==
    kept_blocks(catalog, L2) \o kept_blocks(catalog, T3)
        \o kept_blocks(catalog, S4) \o kept_blocks(catalog, H6)

\* _build_block_library raises RuntimeError
build_block_library_raises(catalog) ==
    \/ allowed_q(catalog) = {}
    \/ allowed_r(catalog) = {}
    \/ Len(blocks(catalog)) = 0

\* self.blocks_by_connectivity, with .get(c, []) for a missing key
blocks_by_connectivity(catalog) ==
    [c \in {2, 3, 4, 6} |->
        SelectSeq(blocks(catalog), LAMBDA name : Connectivity(name) = c)]

\* random_cof_name; d holds the outcomes of the random.choice calls
random_cof_name(topology, bbc, d) ==
    LET topo == IF topology = None THEN Keys(topology_rules)[d.topo] ELSE topology
        n0 == IF topology = None THEN 1 ELSE 0
    IN  IF ~Has(topology_rules, topo) THEN Raised("ValueError", n0)
        ELSE
        LET c1 == Get(topology_rules, topo)[1]
            c2 == Get(topology_rules, topo)[2]
            bb1_list == bbc[c1]
            bb2_list == bbc[c2]
        IN  IF Len(bb1_list) = 0 \/ Len(bb2_list) = 0 THEN Raised("RuntimeError", n0)
            ELSE
            LET bb1_name == bb1_list[d.bb1]
                bb2_first == bb2_list[d.bb2]
                redraw == c1 = c2 /\ Len(bb1_list) > 1 /\ bb2_first = bb1_name
                bb2_name == IF redraw THEN bb2_list[d.bb2_last] ELSE bb2_first
                stacking == Get(stacking_by_topology, topo)[d.stacking]
                cof_name == Join(<<bb1_name, bb2_name, topo, stacking>>, "-")
            IN  Returned(cof_name, n0 + 2 + (IF redraw THEN d.redraws ELSE 0) + 1)

\* The outcomes of the random calls of one random_cof_name call: the redraw
\* loop, when entered, ends after 1..redrawn draws with a block that differs
\* from the first side's.
wk_Draws(topology, bbc, bound, wide, free, redrawn) ==
    UNION { UNION {
        LET topo == IF topology = None THEN Keys(topology_rules)[t] ELSE topology
        IN  IF ~Has(topology_rules, topo)
            THEN {[topo |-> t, bb1 |-> 1, bb2 |-> 1, redraws |-> 0, bb2_last |-> 1,
                   stacking |-> 1]}
            ELSE
            LET bb1_list == bbc[Get(topology_rules, topo)[1]]
                bb2_list == bbc[Get(topology_rules, topo)[2]]
                same == Get(topology_rules, topo)[1] = Get(topology_rules, topo)[2]
                all ==
                    [topo : {t},
                     bb1 : Rng(Len(bb1_list), bound, wide, f = "bb1"),
                     bb2 : Rng(Len(bb2_list), bound, wide, f = "bb2"),
                     redraws : 0..redrawn,
                     bb2_last : 1..Len(bb2_list),
                     stacking : Rng(Len(Get(stacking_by_topology, topo)), bound, wide, f = "stacking")]
            IN  IF Len(bb1_list) = 0 \/ Len(bb2_list) = 0
                THEN {[topo |-> t, bb1 |-> 1, bb2 |-> 1, redraws |-> 0, bb2_last |-> 1,
                       stacking |-> 1]}
                ELSE {d \in all :
                        IF same /\ Len(bb1_list) > 1 /\ bb2_list[d.bb2] = bb1_list[d.bb1]
                        THEN d.redraws >= 1 /\ bb2_list[d.bb2_last] # bb1_list[d.bb1]
                        ELSE d.redraws = 0 /\ d.bb2_last = d.bb2}
        : f \in free \cup {"none"} }
      : t \in IF topology = None THEN 1..Len(topology_rules) ELSE {1} }

\* Catalogs of the external library the model runs against.
Block(sym, core, q, rs) == Join(<<sym, core, q>> \o rs, "_")

Catalogs ==
    { \* two 3-connected and two 4-connected blocks, a linear one, one block
      \* whose core is not whitelisted and one with a foreign R-group
      << Block(T3, T3_CORES[1], CHO, <<H>>), Block(T3, T3_CORES[2], NH2, <<H, R_GROUPS[2]>>),
         Block(T3, <<"T","P","B">>, CHO, <<H>>), Block(S4, S4_CORES[1], CHO, <<H>>),
         Block(S4, S4_CORES[2], NH2, <<<<"X","x">>>>), Block(S4, S4_CORES[3], NH2, <<H>>),
         Block(L2, L2_CORES[1], NH2, <<H>>) >>,
      \* a single 3-connected block and nothing 4-connected
      << Block(T3, T3_CORES[1], CHO, <<H>>) >>,
      \* three 3-connected blocks, one 4-connected
      << Block(T3, T3_CORES[1], CHO, <<H>>), Block(T3, T3_CORES[3], CHO, <<R_GROUPS[1]>>),
         Block(T3, T3_CORES[4], BOH2, <<H>>), Block(S4, S4_CORES[3], CHO, <<H>>) >> }

\* The topology arguments the model passes: none, the empty string, the
\* four tags of the rule tables and a tag of no rule table.
XYZ == <<"X","Y","Z">>
TopologyArgs == {None, <<>>, HCB, SQL, KGD, HXL, XYZ}

(***************************************************************************)
(* The external builder and the build step.                                *)
(***************************************************************************)
\* What one use of the builder, pcb.Framework(name) followed by
\* cof.save(...), can do: write the file, raise at either call, or return
\* without having written the file.
BuilderOutcomes ==
    {[kind |-> "saved"], [kind |-> "silent"],
     [kind |-> "raise_framework", error |-> "Core not found"],
     [kind |-> "raise_save", error |-> "Atoms too close"]}

Raises(o) == o.kind \in {"raise_framework", "raise_save"}

output_dir == <<"g","e","n","e","r","a","t","e","d","_","c","o","f","s">>

\* f"{name}.cif"
CifName(name) == name \o <<".","c","i","f">>

\* os.path.join(output_dir, filename)
PathJoin(dir, filename) == dir \o <<"/">> \o filename

\* The files in the output directory after the builder acted.
FilesAfter(files, cof_string, o) ==
    IF o.kind = "saved" THEN files \cup {PathJoin(output_dir, CifName(cof_string))}
    ELSE files

\* d[k] = v of a Python dict
Put(d, k, v) == [x \in DOMAIN d \cup {k} |-> IF x = k THEN v ELSE d[x]]

\* A variant of v1_build_from_string that loses the exception's message.
v1_build_message_lost(cof_string, o) ==
    IF Raises(o)
    THEN [ok |-> FALSE, error |-> "", cof_string |-> cof_string]
    ELSE [ok |-> TRUE, path |-> PathJoin(output_dir, CifName(cof_string)),
          filename |-> CifName(cof_string), cof_string |-> cof_string,
          supercell |-> <<1, 1, 1>>]

\* random_cof_generator.py: build_from_string, called with supercell = None
v1_build_from_string(cof_string, o) ==
    IF Raises(o)
    THEN [ok |-> FALSE, error |-> o.error, cof_string |-> cof_string]
    ELSE [ok |-> TRUE, path |-> PathJoin(output_dir, CifName(cof_string)),
          filename |-> CifName(cof_string), cof_string |-> cof_string,
          supercell |-> <<1, 1, 1>>]

\* random_cof_generator_v2.py: build_from_string; cof.name is the name the
\* framework was built from
v2_build_from_string(cof_string, o, files) ==
    IF Raises(o) THEN [ok |-> FALSE, error |-> o.error]
    ELSE
    LET after == FilesAfter(files, cof_string, o)
        filename == CifName(cof_string)
        saved_path == PathJoin(output_dir, filename)
    IN  IF saved_path \in after
        THEN [ok |-> TRUE, path |-> saved_path, filename |-> filename]
        ELSE [ok |-> FALSE, error |-> "File not written to disk"]

\* work.py: try_build_and_save; the pair (success, error_message_or_None),
\* its components named as batch_generate unpacks them
try_build_and_save(cof_name, o) ==
    IF Raises(o) THEN [ok |-> FALSE, err |-> o.error] ELSE [ok |-> TRUE, err |-> "None"]

(***************************************************************************)
(* State.                                                                  *)
(***************************************************************************)
VARIABLES
    prog,         \* which script runs: "v1", "v2" or "work"
    args,         \* the command line or the arguments of the entry point
    topology,     \* the topology argument of the generator and the driver
    max_attempts, \* the driver's attempt budget
    bbc,          \* work.py: self.blocks_by_connectivity
    pc,           \* position of the script
    gen,          \* the last call of the candidate generator
    attempts,     \* iterations of the randomized loop started so far
    fb,           \* fallback names tried so far (random_cof_generator.py)
    calls,        \* history: per builder call, where its name came from and
                  \* what the builder did
    built,        \* history: the last builder call, its name and outcome
    result,       \* result (v1, v2), or the pair (ok, err) of work.py
    last_result,  \* last_result of generate_and_save
    exit_status,  \* sys.exit status of the process, -1 while it runs
    files,        \* the structure files in the output directory
    n_success,    \* batch_generate
    records,      \* batch_generate: the rows of the log, without cof_name
    locals        \* local variables of a random_cof_name call in progress

vars == <<prog, args, topology, max_attempts, bbc, pc, gen, attempts, fb, calls,
          built, result, last_result, exit_status, files, n_success, records, locals>>

NoGen == [raised |-> "notcalled", name |-> <<>>, draws |-> 0]
NoLibrary == [c \in {2, 3, 4, 6} |-> <<>>]
NoArgs == [entry |-> "generator"]
NoCall == [name |-> <<>>, outcome |-> [kind |-> "notcalled"]]
\* Python's None as a result
NoResult == [none |-> TRUE]
\* No call of random_cof_name is in progress.
NoLocals == [topology |-> None, bb1_name |-> <<>>, bb2_name |-> <<>>, draws |-> 0]

Libraries ==
    {blocks_by_connectivity(catalog) :
        catalog \in {c \in Catalogs : ~build_block_library_raises(c)}}

Idle ==
    /\ max_attempts = 0
    /\ gen = NoGen
    /\ attempts = 0
    /\ fb = 0
    /\ calls = <<>>
    /\ built = NoCall
    /\ result = NoResult
    /\ last_result = NoResult
    /\ exit_status = -1
    /\ files = {}
    /\ n_success = 0
    /\ records = <<>>
    /\ locals = NoLocals

(***************************************************************************)
(* The candidate generators on their own.                                  *)
(***************************************************************************)
Free == {"core_a", "core_b", "link", "func_a", "func_b", "bb1", "bb2", "stacking"}

\* The length of the longest whitelist: a free field ranges over its whole list.
Whole == Len(t3_list)

GenInit ==
    /\ prog \in {"v1", "v2", "work"}
    /\ args = NoArgs
    /\ topology \in TopologyArgs
    /\ bbc \in IF prog = "work" THEN Libraries ELSE {NoLibrary}
    /\ pc = "generator"
    /\ Idle

GenerateCandidateV1 ==
    /\ pc = "generator" /\ prog = "v1"
    /\ \E d \in v1_Draws(topology, MaxIdx, Whole, Free) :
           gen' = v1_generate_candidate(topology, d)
    /\ pc' = "generated"
    /\ UNCHANGED <<locals, prog, args, topology, max_attempts, bbc, attempts, fb, calls, built,
                   result, last_result, exit_status, files, n_success, records>>

GenerateCandidateV2 ==
    /\ pc = "generator" /\ prog = "v2"
    /\ \E d \in v2_Draws(topology, MaxIdx, Whole, Free) :
           gen' = v2_generate_candidate(topology, d)
    /\ pc' = "generated"
    /\ UNCHANGED <<locals, prog, args, topology, max_attempts, bbc, attempts, fb, calls, built,
                   result, last_result, exit_status, files, n_success, records>>

RandomCofName ==
    /\ pc = "generator" /\ prog = "work"
    /\ \E d \in wk_Draws(topology, bbc, MaxIdx, Whole, Free, MaxRedraws) :
           gen' = random_cof_name(topology, bbc, d)
    /\ pc' = "generated"
    /\ UNCHANGED <<locals, prog, args, topology, max_attempts, bbc, attempts, fb, calls, built,
                   result, last_result, exit_status, files, n_success, records>>

GenNext == GenerateCandidateV1 \/ GenerateCandidateV2 \/ RandomCofName

SpecGen == GenInit /\ [][GenNext]_vars

(***************************************************************************)
(* random_cof_name, one random draw at a time.                             *)
(***************************************************************************)
NameInit ==
    /\ prog = "work"
    /\ args = NoArgs
    /\ topology \in TopologyArgs
    /\ bbc \in Libraries
    /\ pc = "name_start"
    /\ Idle

\* random_cof_name up to the redraw loop: the topology, the two checks that
\* raise, and the first draw of each side
NameDraw ==
    /\ pc = "name_start"
    /\ \E t \in 1..Len(topology_rules) :
         LET topo == IF topology = None THEN Keys(topology_rules)[t] ELSE topology
             n0 == IF topology = None THEN 1 ELSE 0
         IN  /\ topology # None => t = 1
             /\ IF ~Has(topology_rules, topo)
                THEN /\ gen' = Raised("ValueError", n0)
                     /\ pc' = "generated"
                     /\ locals' = locals
                ELSE
                LET bb1_list == bbc[Get(topology_rules, topo)[1]]
                    bb2_list == bbc[Get(topology_rules, topo)[2]]
                IN  IF Len(bb1_list) = 0 \/ Len(bb2_list) = 0
                    THEN /\ gen' = Raised("RuntimeError", n0)
                         /\ pc' = "generated"
                         /\ locals' = locals
                    ELSE /\ \E i \in 1..Len(bb1_list), j \in 1..Len(bb2_list) :
                              locals' = [topology |-> topo, bb1_name |-> bb1_list[i],
                                         bb2_name |-> bb2_list[j], draws |-> n0 + 2]
                         /\ pc' = "redraw"
                         /\ gen' = gen
    /\ UNCHANGED <<prog, args, topology, max_attempts, bbc, attempts, fb, calls, built,
                   result, last_result, exit_status, files, n_success, records>>

\* A variant of redraw_condition that redraws also when the list has one entry.
redraw_always(c1, c2, bb1_list, bb1_name, bb2_name) == bb2_name = bb1_name

\* "if c1 == c2 and len(bb1_list) > 1: while bb2_name == bb1_name"
redraw_condition(c1, c2, bb1_list, bb1_name, bb2_name) ==
    c1 = c2 /\ Len(bb1_list) > 1 /\ bb2_name = bb1_name

\* The loop condition for the call in progress.
Redrawing ==
    LET c1 == Get(topology_rules, locals.topology)[1]
        c2 == Get(topology_rules, locals.topology)[2]
    IN  redraw_condition(c1, c2, bbc[c1], locals.bb1_name, locals.bb2_name)

\* One iteration of the redraw loop: "bb2_name = random.choice(bb2_list)".
\* The draws are counted up to MaxRedraws redraws.
NameRedraw ==
    /\ pc = "redraw"
    /\ Redrawing
    /\ LET bb2_list == bbc[Get(topology_rules, locals.topology)[2]]
           counted == IF locals.draws < 3 + MaxRedraws THEN locals.draws + 1
                      ELSE locals.draws
       IN  \E j \in 1..Len(bb2_list) :
               locals' = [locals EXCEPT !.bb2_name = bb2_list[j], !.draws = counted]
    /\ UNCHANGED <<prog, args, topology, max_attempts, bbc, pc, gen, attempts, fb, calls,
                   built, result, last_result, exit_status, files, n_success, records>>

\* random_cof_name after the redraw loop: the stacking and the name
NameReturn ==
    /\ pc = "redraw"
    /\ ~Redrawing
    /\ LET stacking_options == Get(stacking_by_topology, locals.topology)
       IN  \E k \in 1..Len(stacking_options) :
               gen' = Returned(Join(<<locals.bb1_name, locals.bb2_name, locals.topology,
                                      stacking_options[k]>>, "-"),
                               locals.draws + 1)
    /\ pc' = "generated"
    /\ UNCHANGED <<locals, prog, args, topology, max_attempts, bbc, attempts, fb, calls,
                   built, result, last_result, exit_status, files, n_success, records>>

NameNext == NameDraw \/ NameRedraw \/ NameReturn

\* random.choice is fair: a loop that keeps drawing from a list draws, sooner
\* or later, an entry other than the first side's when the list has one.
SpecName ==
    /\ NameInit /\ [][NameNext]_vars
    /\ WF_vars(NameNext)
    /\ SF_vars(NameRedraw /\ locals'.bb2_name # locals.bb1_name)

(***************************************************************************)
(* The drivers.                                                            *)
(***************************************************************************)
\* The topology arguments the drivers are run with.
DrvTopologyArgs == {None, HCB, SQL, XYZ}

Init ==
    /\ prog \in {"v1", "v2", "work"}
    /\ args \in
         CASE prog = "v1" ->
                [entry : {"main", "generate_and_save"}, topology : DrvTopologyArgs,
                 max_attempts : 0..MaxAttempts, json : BOOLEAN]
           [] prog = "v2" ->
                [entry : {"main"}, topology : DrvTopologyArgs,
                 max_attempts : 0..MaxAttempts, json : BOOLEAN]
           [] OTHER ->
                {a \in [entry : {"batch_generate"}, topology : DrvTopologyArgs,
                         max_attempts : 0..MaxAttempts, given : BOOLEAN,
                         n_structures : 0..MaxStructures] :
                    ~a.given => a.max_attempts = 0}
    /\ topology = None
    /\ bbc \in IF prog = "work" THEN Libraries ELSE {NoLibrary}
    /\ pc = "start"
    /\ Idle

\* random_cof_generator.py: main, up to its call of generate_and_save; the
\* topology argument is commented out of the call.
V1Main ==
    /\ pc = "start" /\ prog = "v1" /\ args.entry = "main"
    /\ topology' = None
    /\ max_attempts' = IF args.max_attempts > 1 THEN args.max_attempts ELSE 1
    /\ pc' = "driver"
    /\ UNCHANGED <<locals, prog, args, bbc, gen, attempts, fb, calls, built, result, last_result,
                   exit_status, files, n_success, records>>

\* generate_and_save called by another module
V1Call ==
    /\ pc = "start" /\ prog = "v1" /\ args.entry = "generate_and_save"
    /\ topology' = args.topology
    /\ max_attempts' = args.max_attempts
    /\ pc' = "driver"
    /\ UNCHANGED <<locals, prog, args, bbc, gen, attempts, fb, calls, built, result, last_result,
                   exit_status, files, n_success, records>>

\* generate_and_save: one iteration of "for _ in range(max_attempts)"
V1Attempt ==
    /\ pc = "driver" /\ prog = "v1"
    /\ attempts < max_attempts
    /\ \E d \in v1_Draws(topology, 1, DrvMaxIdx, Free), o \in BuilderOutcomes :
         LET g == v1_generate_candidate(topology, d)
             cof_string == g.name
             r == Put(v1_build_from_string(cof_string, o), "cof_string", cof_string)
         IN  /\ gen' = g
             /\ built' = [name |-> cof_string, outcome |-> o]
             /\ calls' = Append(calls, [src |-> "random", raised |-> Raises(o)])
             /\ files' = FilesAfter(files, cof_string, o)
             /\ result' = r
             /\ IF r.ok
                THEN pc' = "returned" /\ last_result' = last_result
                ELSE pc' = pc /\ last_result' = r
    /\ attempts' = attempts + 1
    /\ UNCHANGED <<locals, prog, args, topology, max_attempts, bbc, fb, exit_status, n_success,
                   records>>

\* generate_and_save: one iteration of "for fallback in FALLBACK_STRINGS"
V1Fallback ==
    /\ pc = "driver" /\ prog = "v1"
    /\ attempts >= max_attempts
    /\ fb < Len(FALLBACK_STRINGS)
    /\ \E o \in BuilderOutcomes :
         LET fallback == FALLBACK_STRINGS[fb + 1]
             r == Put(v1_build_from_string(fallback, o), "cof_string", fallback)
         IN  /\ built' = [name |-> fallback, outcome |-> o]
             /\ calls' = Append(calls, [src |-> "fallback", raised |-> Raises(o)])
             /\ files' = FilesAfter(files, fallback, o)
             /\ result' = r
             /\ IF r.ok
                THEN pc' = "returned" /\ last_result' = last_result
                ELSE pc' = pc /\ last_result' = r
    /\ fb' = fb + 1
    /\ UNCHANGED <<locals, prog, args, topology, max_attempts, bbc, gen, attempts, exit_status,
                   n_success, records>>

\* A variant of last_result_or_default that forgets the last result.
default_failure(lr) ==
    [ok |-> FALSE, error |-> "Failed to generate after retries and fallbacks."]

\* "last_result or {...}"
last_result_or_default(lr) ==
    IF lr # NoResult THEN lr
    ELSE [ok |-> FALSE, error |-> "Failed to generate after retries and fallbacks."]

\* generate_and_save: "return last_result or {...}"
V1GiveUp ==
    /\ pc = "driver" /\ prog = "v1"
    /\ attempts >= max_attempts
    /\ fb = Len(FALLBACK_STRINGS)
    /\ result' = last_result_or_default(last_result)
    /\ pc' = "returned"
    /\ UNCHANGED <<locals, prog, args, topology, max_attempts, bbc, gen, attempts, fb, calls,
                   built, last_result, exit_status, files, n_success, records>>

\* random_cof_generator.py: main, after generate_and_save returned
V1Exit ==
    /\ pc = "returned" /\ prog = "v1" /\ args.entry = "main"
    /\ exit_status' = IF result.ok THEN 0 ELSE 1
    /\ pc' = "exited"
    /\ UNCHANGED <<locals, prog, args, topology, max_attempts, bbc, gen, attempts, fb, calls,
                   built, result, last_result, files, n_success, records>>

\* random_cof_generator_v2.py: main, up to the retry loop
V2Main ==
    /\ pc = "start" /\ prog = "v2"
    /\ topology' = args.topology
    /\ max_attempts' = args.max_attempts
    /\ result' = [ok |-> FALSE, error |-> "Max attempts reached"]
    /\ pc' = "driver"
    /\ UNCHANGED <<locals, prog, args, bbc, gen, attempts, fb, calls, built, last_result,
                   exit_status, files, n_success, records>>

\* A variant of v2_after_attempt without the break.
v2_no_break(r, here) == here

\* main: "if result["ok"]: break", as the position after the attempt
v2_after_attempt(r, here) == IF r.ok THEN "output" ELSE here

\* main: one iteration of "for i in range(args.max_attempts)"; a ValueError
\* of generate_candidate is not caught and ends the process with status 1.
V2Attempt ==
    /\ pc = "driver" /\ prog = "v2"
    /\ attempts < max_attempts
    /\ \E d \in v2_Draws(topology, 1, DrvMaxIdx, Free), o \in BuilderOutcomes :
         LET g == v2_generate_candidate(topology, d)
             candidate_str == g.name
             r == Put(v2_build_from_string(candidate_str, o, files), "cof_string",
                      candidate_str)
         IN  /\ gen' = g
             /\ IF g.raised # "none"
                THEN /\ pc' = "crashed"
                     /\ exit_status' = 1
                     /\ UNCHANGED <<built, calls, files, result>>
                ELSE /\ built' = [name |-> candidate_str, outcome |-> o]
                     /\ calls' = Append(calls, [src |-> "random", raised |-> Raises(o)])
                     /\ files' = FilesAfter(files, candidate_str, o)
                     /\ result' = r
                     /\ pc' = v2_after_attempt(r, pc)
                     /\ exit_status' = exit_status
    /\ attempts' = attempts + 1
    /\ UNCHANGED <<locals, prog, args, topology, max_attempts, bbc, fb, last_result, n_success,
                   records>>

\* main: "Output Handling"; falling off the end of main is status 0
V2Output ==
    /\ prog = "v2"
    /\ pc = "output" \/ (pc = "driver" /\ attempts >= max_attempts)
    /\ exit_status' = IF args.json THEN 0 ELSE IF result.ok THEN 0 ELSE 1
    /\ pc' = "exited"
    /\ UNCHANGED <<locals, prog, args, topology, max_attempts, bbc, gen, attempts, fb, calls,
                   built, result, last_result, files, n_success, records>>

\* A variant of default_max_attempts with a budget of one attempt per structure.
one_attempt_each(n_structures) == n_structures

\* "if max_attempts is None: max_attempts = n_structures * 10"
default_max_attempts(n_structures) == n_structures * 10

\* work.py: batch_generate, up to its loop
BatchStart ==
    /\ pc = "start" /\ prog = "work"
    /\ topology' = args.topology
    /\ max_attempts' = IF args.given THEN args.max_attempts
                       ELSE default_max_attempts(args.n_structures)
    /\ pc' = "driver"
    /\ UNCHANGED <<locals, prog, args, bbc, gen, attempts, fb, calls, built, result, last_result,
                   exit_status, files, n_success, records>>

\* A variant of batch_loop_condition that never looks at the successes.
loop_until_budget(ns, n_structures, a, ma) == a < ma

\* A variant of batch_loop_condition that never looks at the budget.
loop_until_target(ns, n_structures, a, ma) == ns < n_structures

\* "while n_success < n_structures and attempts < max_attempts"
batch_loop_condition(ns, n_structures, a, ma) == ns < n_structures /\ a < ma

\* batch_generate: one iteration of the while loop
BatchIteration ==
    /\ pc = "driver" /\ prog = "work"
    /\ batch_loop_condition(n_success, args.n_structures, attempts, max_attempts)
    /\ attempts < MaxBatchSteps
    /\ attempts' = attempts + 1
    /\ \E d \in wk_Draws(topology, bbc, 1, DrvMaxIdx, {"stacking"}, 1), o \in BuilderOutcomes :
         LET g == random_cof_name(topology, bbc, d)
             cof_name == g.name
             topo == Split(cof_name, "-")[3]
             r == try_build_and_save(cof_name, o)
         IN  /\ gen' = g
             /\ IF g.raised # "none"
                THEN /\ records' = Append(records,  \* error: str(e), here the
                            [topology |-> topology,  \* exception's type
                             status |-> "name_error", error |-> g.raised])
                     /\ UNCHANGED <<built, calls, files, result, n_success>>
                ELSE /\ built' = [name |-> cof_name, outcome |-> o]
                     /\ calls' = Append(calls, [src |-> "random", raised |-> Raises(o)])
                     /\ files' = FilesAfter(files, cof_name, o)
                     /\ result' = r
                     /\ n_success' = IF r.ok THEN n_success + 1 ELSE n_success
                     /\ records' = Append(records,
                            [topology |-> topo,
                             status |-> IF r.ok THEN "ok" ELSE "error",
                             error |-> r.err])
    /\ UNCHANGED <<locals, prog, args, topology, max_attempts, bbc, pc, fb, last_result,
                   exit_status>>

\* batch_generate: the loop condition is false; the log is returned
BatchReturn ==
    /\ pc = "driver" /\ prog = "work"
    /\ ~batch_loop_condition(n_success, args.n_structures, attempts, max_attempts)
    /\ pc' = "returned"
    /\ UNCHANGED <<locals, prog, args, topology, max_attempts, bbc, gen, attempts, fb, calls,
                   built, result, last_result, exit_status, files, n_success, records>>

Next ==
    \/ V1Main \/ V1Call \/ V1Attempt \/ V1Fallback \/ V1GiveUp \/ V1Exit
    \/ V2Main \/ V2Attempt \/ V2Output
    \/ BatchStart \/ BatchIteration \/ BatchReturn

Spec == Init /\ [][Next]_vars

(***************************************************************************)
(* Reading a candidate name back, and counting the rows of the log.        *)
(***************************************************************************)
RuleTable(p) ==
    CASE p = "v1" -> v1_topo_rules
      [] p = "v2" -> v2_topo_rules
      [] OTHER -> topology_rules

Segments(name) == Split(name, "-")

TagOf(segment) == Split(segment, "_")[1]

\* The topology field of a name: "<topology>_<net>" in the two
\* random_cof_generator scripts, "<topology>" in work.py.
TopologyOf(p, name) ==
    IF p = "work" THEN Segments(name)[3] ELSE Split(Segments(name)[3], "_")[1]

AllRaised == \A j \in 1..Len(calls) : calls[j].raised

NoneRaised == \A j \in 1..Len(calls) : ~calls[j].raised

OkCount == Cardinality({j \in 1..Len(records) : records[j].status = "ok"})

NameErrors == Cardinality({j \in 1..Len(records) : records[j].status = "name_error"})

ErrorOf(r) == IF "err" \in DOMAIN r THEN r.err ELSE r.error

HasError(r) == "error" \in DOMAIN r \/ ("err" \in DOMAIN r /\ r.err # "None")

\* The driver has an attempt or a fallback left.
BudgetLeft ==
    CASE prog = "v1" -> attempts < max_attempts \/ fb < Len(FALLBACK_STRINGS)
      [] prog = "v2" -> attempts < max_attempts
      [] OTHER -> n_success < args.n_structures /\ attempts < max_attempts

(***************************************************************************)
(* Claims.                                                                 *)
(***************************************************************************)
\* C1: when every builder call raises, generate_and_save makes exactly
\* max_attempts calls with generated candidates, then one call per entry of
\* FALLBACK_STRINGS in list order, then returns a failure result whose error
\* and cof_string are those of the last call made.
C1_ExhaustedFailure ==
    /\ (prog = "v1" /\ calls # <<>> /\ calls[Len(calls)].src = "random") =>
           /\ Len(calls) = attempts /\ attempts <= max_attempts /\ fb = 0
           /\ built.name = gen.name
    /\ (prog = "v1" /\ calls # <<>> /\ calls[Len(calls)].src = "fallback") =>
           /\ attempts = max_attempts /\ Len(calls) = max_attempts + fb
           /\ built.name = FALLBACK_STRINGS[fb]
    /\ (prog = "v1" /\ pc \in {"returned", "exited"} /\ AllRaised) =>
           /\ Len(calls) = max_attempts + Len(FALLBACK_STRINGS)
           /\ \A j \in 1..Len(calls) :
                  calls[j].src = IF j <= max_attempts THEN "random" ELSE "fallback"
           /\ result.ok = FALSE
           /\ result.error = built.outcome.error
           /\ result.cof_string = built.name
           /\ built.name = FALLBACK_STRINGS[Len(FALLBACK_STRINGS)]

C1_Witness ==
    /\ prog = "v1" /\ pc = "returned" /\ AllRaised
    /\ max_attempts = MaxAttempts
    /\ Len(calls) = MaxAttempts + Len(FALLBACK_STRINGS)
    /\ result.ok = FALSE

\* C2: when the builder raises on its first k-1 calls and writes the file on
\* its k-th, k <= max_attempts, the driver (v1, v2) stops after exactly k
\* calls with a success result naming the k-th candidate, and no fallback
\* name is passed to the builder.
C2_SuccessAtK ==
    (/\ prog \in {"v1", "v2"}
     /\ calls # <<>> /\ Len(calls) <= max_attempts
     /\ \A j \in 1..(Len(calls) - 1) : calls[j].raised
     /\ built.outcome.kind = "saved") =>
        /\ pc \in {"returned", "output", "exited"}
        /\ result.ok = TRUE
        /\ result.cof_string = built.name
        /\ built.name = gen.name
        /\ attempts = Len(calls)
        /\ fb = 0
        /\ \A j \in 1..Len(calls) : calls[j].src = "random"

C2_Witness ==
    /\ prog = "v2" /\ pc = "exited"
    /\ Len(calls) = 2 /\ calls[1].raised
    /\ built.outcome.kind = "saved"
    /\ result.ok = TRUE

\* C3: with the topology argument set to a (non-empty) value that is no key
\* of the rule table, the generator raises, returns no name and makes no
\* random draw.
C3_UnknownTopologyFails ==
    (pc = "generated" /\ Truthy(topology) /\ ~Has(RuleTable(prog), topology)) =>
        /\ gen.raised # "none"
        /\ gen.name = <<>>
        /\ gen.draws = 0

C5_ExitStatus ==
    (pc = "exited" /\ calls # <<>>) => exit_status = IF result.ok THEN 0 ELSE 1

\* C6: once the candidate generator has raised a configuration error, the
\* driver makes no further generation or build attempt.
C6_ConfigErrorFatal ==
    [][gen.raised \in {"ValueError", "RuntimeError"} =>
           (gen' = gen /\ attempts' = attempts /\ calls' = calls)]_vars

\* C7: when a topology of the rule table is forced, every name passed to
\* the builder encodes that topology.
C7_ForcedTopology ==
    (Has(RuleTable(prog), args.topology) /\ built # NoCall) =>
        TopologyOf(prog, built.name) = args.topology

\* C8: in every generated name the symmetry/connectivity tags of the two
\* building-block segments are, in order, the pair the rule table gives for
\* the topology the name encodes.
C8_TagsMatchRule ==
    (pc = "generated" /\ gen.raised = "none") =>
        LET segs == Segments(gen.name)
            topo == TopologyOf(prog, gen.name)
            a == TagOf(segs[1])
            b == TagOf(segs[2])
        IN  /\ Has(RuleTable(prog), topo)
            /\ Get(RuleTable(prog), topo) =
                   IF prog = "work" THEN <<Connectivity(a), Connectivity(b)>>
                   ELSE <<a, b>>

C8_Witness ==
    /\ pc = "generated" /\ prog = "v2" /\ gen.raised = "none"
    /\ TopologyOf(prog, gen.name) = HXL
    /\ TagOf(Segments(gen.name)[1]) = H6
    /\ TagOf(Segments(gen.name)[2]) = L2

\* The library has a block of each connectivity topology t requires.
HasBlocksFor(t) ==
    /\ Len(bbc[Get(topology_rules, t)[1]]) > 0
    /\ Len(bbc[Get(topology_rules, t)[2]]) > 0

\* C9 as stated: called with a topology T of the rule table, the generator
\* returns a name in which T occurs exactly once.
C9_Original ==
    (pc = "generated" /\ Has(RuleTable(prog), topology)) =>
        /\ gen.raised = "none"
        /\ Occurrences(topology, gen.name) = 1

\* C9, amended: called with a topology T of the rule table, the generator
\* returns a name in which T occurs exactly once, as its topology field;
\* except that random_cof_name raises RuntimeError and returns no name when
\* the library holds no block of a connectivity T requires.
C9_TopologyOnce ==
    (pc = "generated" /\ Has(RuleTable(prog), topology)) =>
        IF prog = "work" /\ ~HasBlocksFor(topology)
        THEN gen.raised = "RuntimeError" /\ gen.name = <<>>
        ELSE /\ gen.raised = "none"
             /\ Occurrences(topology, gen.name) = 1
             /\ TopologyOf(prog, gen.name) = topology

C9_Witness ==
    /\ pc = "generated" /\ prog = "work" /\ topology = HCB
    /\ gen.raised = "none"
    /\ Occurrences(HCB, gen.name) = 1
    /\ Len(bbc[3]) > 1

\* C10 as stated: an exception of the builder becomes a result with
\* ok = false carrying its message and the driver goes on to the next
\* attempt; a result with ok = true carries an output path and a result
\* with ok = false carries an error.
C10_Original ==
    /\ (built # NoCall /\ Raises(built.outcome)) =>
           /\ result.ok = FALSE
           /\ ErrorOf(result) = built.outcome.error
           /\ pc # "crashed"
           /\ BudgetLeft => pc = "driver"
    /\ (result # NoResult /\ result.ok) => "path" \in DOMAIN result
    /\ (result # NoResult /\ ~result.ok) => HasError(result)

\* C10, amended: as stated, except that a result with ok = true carries an
\* output path in the two random_cof_generator scripts only; in work.py it
\* is the pair (True, None), with no path.
C10_BuildErrorsCaught ==
    /\ (built # NoCall /\ Raises(built.outcome)) =>
           /\ result.ok = FALSE
           /\ ErrorOf(result) = built.outcome.error
           /\ pc # "crashed"
           /\ BudgetLeft => pc = "driver"
    /\ (result # NoResult /\ result.ok) =>
           IF prog = "work"
           THEN "path" \notin DOMAIN result /\ result.err = "None"
           ELSE "path" \in DOMAIN result
    /\ (result # NoResult /\ ~result.ok) => HasError(result)

C10_Witness ==
    /\ prog = "v1" /\ pc = "driver"
    /\ Raises(built.outcome)
    /\ attempts < max_attempts
    /\ result.ok = FALSE /\ result.error = built.outcome.error

(***************************************************************************)
(* Termination and the number of builder calls.                            *)
(***************************************************************************)
\* The last builder call made produced a success result.
LastBuildOk == calls # <<>> /\ result.ok

\* The position of a script, in the order in which it moves through them.
PcRank(p) ==
    CASE p = "start" -> 0
      [] p = "driver" -> 1
      [] p \in {"returned", "output", "crashed"} -> 2
      [] OTHER -> 3

\* The driver has left its loop.
Terminated == PcRank(pc) >= 2

\* C11 as stated: the driver makes no builder call after a success.
C11_Original ==
    [][LastBuildOk => calls' = calls]_vars

\* The driver has what it was asked for: one structure, or n_structures of
\* them in batch_generate.
TargetReached ==
    IF prog = "work" THEN n_success >= args.n_structures ELSE LastBuildOk

C11_Bounded ==
    /\ pc # "start" =>
           /\ attempts <= max_attempts
           /\ fb <= Len(FALLBACK_STRINGS)
           /\ fb > 0 => prog = "v1"
           /\ Len(calls) <= attempts + fb
    /\ (Terminated /\ prog = "v1") =>
           \/ result.ok /\ LastBuildOk /\ result.cof_string = built.name
           \/ ~result.ok /\ attempts = max_attempts /\ fb = Len(FALLBACK_STRINGS)
    /\ (Terminated /\ prog = "v2") =>
           \/ pc # "crashed" /\ result.ok /\ LastBuildOk
                /\ result.cof_string = built.name
           \/ pc # "crashed" /\ ~result.ok /\ attempts = max_attempts
           \/ pc = "crashed" /\ gen.raised = "ValueError" /\ calls = <<>>
                /\ exit_status = 1
    /\ (Terminated /\ prog = "work") =>
           \/ n_success = args.n_structures
           \/ n_success < args.n_structures /\ attempts = max_attempts

C11_Step ==
    /\ TargetReached => calls' = calls
    /\ \/ PcRank(pc') > PcRank(pc)
       \/ /\ pc' = pc /\ pc = "driver"
          /\ max_attempts' = max_attempts
          /\ args' = args
          /\ attempts' + fb' = attempts + fb + 1

\* C11, amended: every step of a driver either moves the script forward or
\* uses up one unit of a budget that is never exceeded (attempts up to
\* max_attempts, then the fallbacks of random_cof_generator.py), so the
\* driver terminates after at most max_attempts + |FALLBACK_STRINGS| builder
\* calls.  The two single-structure drivers end with a success result at the
\* first successful build or with a failure result once the budget is used
\* up, and make no builder call after a success; main of
\* random_cof_generator_v2.py also ends on the generator's ValueError, before
\* any builder call.  batch_generate goes on after a success: it ends with
\* n_success = n_structures or with the attempts used up, and makes no
\* builder call after the n_structures-th success.
C11_Terminates ==
    []C11_Bounded /\ [][C11_Step]_vars

C11_Witness ==
    /\ prog = "work" /\ pc = "returned"
    /\ args.n_structures >= 2
    /\ n_success = args.n_structures
    /\ Len(calls) >= 2

(***************************************************************************)
(* A builder that returns without writing the file.                        *)
(***************************************************************************)
\* The structure file of the last builder call is in the output directory.
BuiltFileExists == PathJoin(output_dir, CifName(built.name)) \in files

\* C12: when the builder returned without raising and the structure file
\* does not exist afterwards, the build step's result has ok = false and the
\* driver goes on to the next attempt while it has one.
C12_SilentSaveFails ==
    (built # NoCall /\ ~Raises(built.outcome) /\ ~BuiltFileExists) =>
        /\ result.ok = FALSE
        /\ BudgetLeft => pc = "driver"

(***************************************************************************)
(* The reactive groups of the two sides.                                   *)
(***************************************************************************)
\* The reactive group of a building-block segment "<sym>_<core>_<conn>_...".
ConnOf(segment) == Split(segment, "_")[3]

\* The valid-linkage whitelist a name is held against: the script's own;
\* work.py defines none, and its names are held against the widest
\* whitelist of the repository.
Linkages(p) == IF p = "v1" THEN v1_valid_linkages ELSE v2_valid_linkages

\* C13: in every generated name the pair (reactive group of side A,
\* reactive group of side B) is a pair of the valid-linkage whitelist.
C13_ValidLinkage ==
    (pc = "generated" /\ gen.raised = "none") =>
        In(<<ConnOf(Segments(gen.name)[1]), ConnOf(Segments(gen.name)[2])>>,
           Linkages(prog))

(***************************************************************************)
(* The two sides of a name of random_cof_name.                             *)
(***************************************************************************)
\* The list both sides of the returned name were drawn from.
SideList == bbc[Get(topology_rules, TopologyOf("work", gen.name))[1]]

C14_Distinct ==
    (pc = "generated" /\ gen.raised = "none") =>
        /\ Get(topology_rules, TopologyOf("work", gen.name))[1]
               = Get(topology_rules, TopologyOf("work", gen.name))[2]
        /\ In(Segments(gen.name)[1], SideList) /\ In(Segments(gen.name)[2], SideList)
        /\ Len(SideList) > 1 => Segments(gen.name)[1] # Segments(gen.name)[2]
        /\ Len(SideList) = 1 => Segments(gen.name)[1] = Segments(gen.name)[2]

\* C14: when the list of available blocks of the topology's connectivity
\* has more than one entry, the name random_cof_name returns has two
\* different blocks on its sides; when the list has exactly one entry both
\* sides are that block; and the call, its redraw loop included, always
\* ends (under fair random choice).
C14_RedrawDistinct ==
    []C14_Distinct /\ <>(pc = "generated")

\* A name returned after the redraw loop replaced a duplicate draw.
C14_Witness ==
    /\ pc = "generated" /\ gen.raised = "none"
    /\ Len(SideList) > 1
    /\ Segments(gen.name)[1] # Segments(gen.name)[2]
    /\ gen.draws >= 4

(***************************************************************************)
(* The structure files of a run.                                           *)
(***************************************************************************)
\* C15: every successful attempt adds one structure file of its own to the
\* output directory and keeps the files of the earlier successes, and a
\* failed attempt adds none; so the number of files is the number of
\* successful attempts.  (Stated for a builder that has written the file
\* when it returns.)
C15_OneFilePerSuccess ==
    [][(calls' # calls /\ built'.outcome.kind # "silent") =>
           IF result'.ok
           THEN files \subseteq files' /\ Cardinality(files') = Cardinality(files) + 1
           ELSE files' = files]_vars

(***************************************************************************)
(* The loop of batch_generate.                                             *)
(***************************************************************************)
C16_LoopHead ==
    (prog = "work" /\ pc # "start") =>
        /\ Len(records) = attempts
        /\ attempts <= max_attempts
        /\ max_attempts = IF args.given THEN args.max_attempts
                          ELSE 10 * args.n_structures
        /\ OkCount = n_success
        /\ n_success <= args.n_structures
        /\ pc = "returned" =>
               n_success = args.n_structures \/ attempts = max_attempts

C16_Iteration ==
    /\ (prog = "work" /\ attempts' # attempts) =>
           /\ attempts' = attempts + 1
           /\ Len(records') = Len(records) + 1
           /\ SubSeq(records', 1, Len(records)) = records
    /\ (prog = "work" /\ pc = "driver"
          /\ (n_success = args.n_structures \/ attempts = max_attempts)) =>
           /\ pc' = "returned"
           /\ attempts' = attempts /\ records' = records /\ calls' = calls

\* C16: in batch_generate every iteration appends exactly one record, so
\* the number of records equals attempts at each loop head; attempts never
\* exceeds max_attempts (10 * n_structures when not given); the number of
\* "ok" records equals n_success and never exceeds n_structures; and the
\* loop stops exactly when n_success = n_structures or attempts =
\* max_attempts, with no attempt after the target is reached.
C16_BatchLoop ==
    []C16_LoopHead /\ [][C16_Iteration]_vars

\* A batch that used up its budget with a success and a failure in its log.
C16_Witness ==
    /\ prog = "work" /\ pc = "returned"
    /\ attempts = max_attempts /\ attempts >= 2
    /\ n_success > 0 /\ n_success < args.n_structures
    /\ Len(records) = attempts

====
